---------------------------- MODULE Spec2Model ----------------------------
(***************************************************************************)
(* Remote-configuration client (pkg/config/remote/client.go) and agent     *)
(* profile selection (agentprofile.ProfilesToApply) of datadog-operator.   *)
(*                                                                         *)
(* The client is modelled as a set of caller threads that invoke Start,    *)
(* Close and RegisterDebug concurrently, and the poll goroutine(s) that    *)
(* Start launches.  Time is counted in seconds while a poll goroutine is   *)
(* parked in its select; every other step takes no time.                   *)
(***************************************************************************)
EXTENDS Integers, Sequences, FiniteSets, TLC

VARIABLES
    ID,               \* c.ID: the client's identifier, set by newClient
    ctxDone,          \* c.ctx has been cancelled (c.close() ran)
    closeCalled,      \* history: Client.Close has been called
    onceDone,         \* c.startupSync has run its function
    nStart,           \* history: number of Start calls made (capped at 2)
    mHolder,          \* owner of c.m, or Free
    debugListeners,   \* c.debugListeners: sequence of listener functions
    lastUpdateError,  \* c.lastUpdateError
    repo,             \* c.state: the repository (versions, debug configs)
    loop,             \* the pollLoop goroutines: position and locals
    caller,           \* the caller threads: position
    opsLeft,          \* number of API calls the callers may still make
    prevRet,          \* history: what the previous call of update returned
    failStreak,       \* history: consecutive failed updates (capped at 2)
    pfPc,             \* profiles: "input" or "done"
    profiles,         \* profiles: the DatadogAgentProfile list given
    nodes,            \* profiles: the node list given
    sortedProfiles,   \* profiles: what sortProfiles returned
    res               \* profiles: what ProfilesToApply returned

clientVars == <<ctxDone, closeCalled, onceDone, nStart, mHolder, debugListeners,
                lastUpdateError, repo, loop, caller, opsLeft, prevRet, failStreak,
                ID>>
profileVars == <<pfPc, profiles, nodes, sortedProfiles, res>>
vars == <<clientVars, profileVars>>

-----------------------------------------------------------------------------
(* Bounds of the model *)

NumCallers == 2
MaxOps == 3
NumIDSamples == 3
MaxLoops == 2
MaxVersion == 2
MaxFairOps == 2

(* time.After(time.Second * 5) *)
PollSeconds == 5

Callers == 1..NumCallers
Loops == 1..MaxLoops

Free == <<"free", 0>>
CallerId(c) == <<"caller", c>>
LoopId(g) == <<"loop", g>>

-----------------------------------------------------------------------------
(* Errors.  nil is "nil"; any other value is an error, whose Error() text  *)
(* is given by ErrorMessage.                                               *)

Nil == "nil"
ErrState == "ErrState"
ErrFetch == "ErrFetch"
ErrApply == "ErrApply"

ErrorMessage(e) ==
    CASE e = ErrState -> "current state unavailable"
      [] e = ErrFetch -> "rpc failed"
      [] e = ErrApply -> "update rejected"
      [] OTHER -> ""

(* state.ProductDebug and another product *)
ProductDebug == "DEBUG"
ProductOther == "OTHER"


-----------------------------------------------------------------------------
(* The repository c.state (package pkg/remoteconfig/state).                *)

Repo0 == [targets |-> 0, debug |-> 0]

(* Repository.DebugConfigs(): the debug configs currently held. *)
DebugConfigs == repo.debug

(* The lists of changed products Repository.Update can report. *)
ChangedLists ==
    { <<>>, <<ProductDebug>>, <<ProductOther>>, <<ProductOther, ProductDebug>> }

containsElem(s, x) == \E i \in 1..Len(s) : s[i] = x

(* Repository.Update(update): either an error that leaves the repository   *)
(* alone, or a new targets version with the list of products it changed.   *)
RepoUpdateOutcomes ==
    { [err |-> ErrApply, changed |-> <<>>, repo |-> repo],
      [err |-> Nil, changed |-> <<>>, repo |-> repo] }
    \cup
    { [err |-> Nil, changed |-> ch,
       repo |-> [targets |-> repo.targets + 1,
                 debug |-> IF containsElem(ch, ProductDebug)
                           THEN repo.targets + 1 ELSE repo.debug]] :
      ch \in IF repo.targets < MaxVersion THEN ChangedLists ELSE {} }

(* Repository.CurrentState(): what the repository holds at its targets     *)
(* version: one config and one cached file per version applied.  A cached  *)
(* file has one hash per algorithm, a hash being a list of bytes.          *)
ConfigAt(i) ==
    [ID |-> <<"config", i>>, Version |-> 10 + i,
     Product |-> IF i % 2 = 1 THEN ProductDebug ELSE ProductOther]

CachedFileAt(i) ==
    [Path |-> <<"file", i>>, Length |-> 100 + i,
     Hashes |-> IF i % 2 = 1
                THEN [a \in {"sha256"} |-> <<i, 171>>]
                ELSE [a \in {"sha256", "sha512"} |->
                        IF a = "sha256" THEN <<i, 171>> ELSE <<i, 205, 15>>]]

CurrentState ==
    [Configs |-> [i \in 1..repo.targets |-> ConfigAt(i)],
     CachedFiles |-> [i \in 1..repo.targets |-> CachedFileAt(i)],
     RootsVersion |-> 1 + (repo.targets \div 2),
     TargetsVersion |-> repo.targets,
     OpaqueBackendState |-> <<"opaque", repo.targets>>]

(* ConfigUpdater.ClientGetConfigs: an error, a response without            *)
(* TargetFiles (nothing new), or a response with TargetFiles.              *)
Responses ==
    { [err |-> ErrFetch, targetFiles |-> "nil"],
      [err |-> Nil, targetFiles |-> "nil"],
      [err |-> Nil, targetFiles |-> "some"] }

-----------------------------------------------------------------------------
(* Client *)

NoReq ==
    [HasError |-> FALSE, Error |-> "", RootVersion |-> 0, TargetsVersion |-> 0,
     ConfigStates |-> <<>>, BackendClientState |-> <<>>, Id |-> <<>>,
     CachedTargetFiles |-> <<>>, sent |-> FALSE]

LoopInit ==
    [pc |-> "idle", timer |-> 0, waited |-> 0, afterClose |-> FALSE,
     req |-> NoReq, targetFiles |-> "none", fetched |-> FALSE, applied |-> FALSE,
     changed |-> <<>>, ret |-> Nil, rng |-> <<>>, i |-> 0,
     notified |-> <<>>, repoAtStart |-> Repo0, debugApplied |-> 0,
     atLock |-> <<>>]

(* idSize, idAlphabet *)
idSize == 21

idAlphabet ==
    <<"_", "-", "0", "1", "2", "3", "4", "5", "6", "7", "8", "9",
      "a", "b", "c", "d", "e", "f", "g", "h", "i", "j", "k", "l", "m",
      "n", "o", "p", "q", "r", "s", "t", "u", "v", "w", "x", "y", "z",
      "A", "B", "C", "D", "E", "F", "G", "H", "I", "J", "K", "L", "M",
      "N", "O", "P", "Q", "R", "S", "T", "U", "V", "W", "X", "Y", "Z">>

(* idAlphabet[k]: Go indexes from 0 and panics when k is out of range. *)
RuneAt(k) ==
    IF k \in 0..(Len(idAlphabet) - 1) THEN idAlphabet[k + 1] ELSE "index out of range"

(* A mutation of the index that leaves the byte unmasked. *)
AlphabetIndexNoMask(b) == b

(* bytes[i]&63 on a byte *)
AlphabetIndex(b) == b % 64

(* rand.Read(bytes): the bytes read, one list of idSize bytes per sample *)
RandRead(s) == [i \in 1..idSize |-> ((s - 1) * 37 + (i - 1) * 51) % 256]

(* generateID: one rune of the alphabet per byte read *)
generateID(bytes) == [i \in 1..idSize |-> RuneAt(AlphabetIndex(bytes[i]))]

InitClientWith(ops, samples) ==
    /\ \E s \in 1..samples : ID = generateID(RandRead(s))
    /\ ctxDone = FALSE
    /\ closeCalled = FALSE
    /\ onceDone = FALSE
    /\ nStart = 0
    /\ mHolder = Free
    /\ debugListeners = <<>>
    /\ lastUpdateError = Nil
    /\ repo = Repo0
    /\ loop = [g \in Loops |-> LoopInit]
    /\ caller = [c \in Callers |-> "idle"]
    /\ opsLeft = ops
    /\ prevRet = "none"
    /\ failStreak = 0

InitClient == InitClientWith(MaxOps, 1)

InitProfilesIdle ==
    /\ pfPc = "off"
    /\ profiles = <<>>
    /\ nodes = <<>>
    /\ sortedProfiles = <<>>
    /\ res = [err |-> FALSE, list |-> <<>>]

Init == InitClient /\ InitProfilesIdle

SetLoop(g, r) == loop' = [loop EXCEPT ![g] = r]

(* ---- callers ---- *)

(* startFn: go c.pollLoop() *)
startFn ==
    IF \E g \in Loops : loop[g].pc = "idle"
    THEN LET g == CHOOSE h \in Loops :
                    /\ loop[h].pc = "idle"
                    /\ \A k \in Loops : loop[k].pc = "idle" => h <= k
         IN SetLoop(g, [loop[g] EXCEPT !.pc = "top", !.afterClose = closeCalled])
    ELSE UNCHANGED loop

(* A caller enters Start. *)
CallStart(c) ==
    /\ caller[c] = "idle"
    /\ opsLeft > 0
    /\ opsLeft' = opsLeft - 1
    /\ nStart' = IF nStart < 2 THEN nStart + 1 ELSE nStart
    /\ caller' = [caller EXCEPT ![c] = "start"]
    /\ UNCHANGED <<ctxDone, closeCalled, onceDone, mHolder, debugListeners,
                   lastUpdateError, repo, loop, prevRet, failStreak, ID, profileVars>>

(* A mutation of Start that calls startFn directly, without the sync.Once. *)
StartWithoutOnce(c) ==
    /\ caller[c] = "start"
    /\ startFn
    /\ onceDone' = TRUE
    /\ caller' = [caller EXCEPT ![c] = "idle"]
    /\ UNCHANGED <<ctxDone, closeCalled, nStart, mHolder, debugListeners,
                   lastUpdateError, repo, opsLeft, prevRet, failStreak, ID, profileVars>>

(* Start: c.startupSync.Do(c.startFn) *)
Start(c) ==
    /\ caller[c] = "start"
    /\ IF onceDone THEN UNCHANGED loop ELSE startFn
    /\ onceDone' = TRUE
    /\ caller' = [caller EXCEPT ![c] = "idle"]
    /\ UNCHANGED <<ctxDone, closeCalled, nStart, mHolder, debugListeners,
                   lastUpdateError, repo, opsLeft, prevRet, failStreak, ID, profileVars>>

(* A mutation of Close that forgets to cancel the context. *)
CloseWithoutCancel(c) ==
    /\ caller[c] = "idle"
    /\ opsLeft > 0
    /\ opsLeft' = opsLeft - 1
    /\ closeCalled' = TRUE
    /\ UNCHANGED <<ctxDone, onceDone, nStart, mHolder, debugListeners,
                   lastUpdateError, repo, loop, caller, prevRet, failStreak, ID, profileVars>>

(* Close: c.close(), the context's CancelFunc *)
Close(c) ==
    /\ caller[c] = "idle"
    /\ opsLeft > 0
    /\ opsLeft' = opsLeft - 1
    /\ closeCalled' = TRUE
    /\ ctxDone' = TRUE
    /\ UNCHANGED <<onceDone, nStart, mHolder, debugListeners,
                   lastUpdateError, repo, loop, caller, prevRet, failStreak, ID, profileVars>>

(* A caller enters RegisterDebug(fn); the function registered is the       *)
(* caller's own, named by the caller's number.                             *)
CallRegisterDebug(c) ==
    /\ caller[c] = "idle"
    /\ opsLeft > 0
    /\ opsLeft' = opsLeft - 1
    /\ caller' = [caller EXCEPT ![c] = "rd_lock"]
    /\ UNCHANGED <<ctxDone, closeCalled, onceDone, nStart, mHolder, debugListeners,
                   lastUpdateError, repo, loop, prevRet, failStreak, ID, profileVars>>

(* A mutation of RegisterDebug that does not wait for the mutex. *)
RegisterLockNoWait(c) ==
    /\ caller[c] = "rd_lock"
    /\ mHolder' = CallerId(c)
    /\ caller' = [caller EXCEPT ![c] = "rd_append"]
    /\ UNCHANGED <<ctxDone, closeCalled, onceDone, nStart, debugListeners,
                   lastUpdateError, repo, loop, opsLeft, prevRet, failStreak, ID, profileVars>>

(* RegisterDebug: c.m.Lock() *)
RegisterLock(c) ==
    /\ caller[c] = "rd_lock"
    /\ mHolder = Free
    /\ mHolder' = CallerId(c)
    /\ caller' = [caller EXCEPT ![c] = "rd_append"]
    /\ UNCHANGED <<ctxDone, closeCalled, onceDone, nStart, debugListeners,
                   lastUpdateError, repo, loop, opsLeft, prevRet, failStreak, ID, profileVars>>

(* RegisterDebug: the append, then fn(c.state.DebugConfigs()) is entered *)
RegisterAppend(c) ==
    /\ caller[c] = "rd_append"
    /\ debugListeners' = Append(debugListeners, c)
    /\ caller' = [caller EXCEPT ![c] = "rd_incb"]
    /\ UNCHANGED <<ctxDone, closeCalled, onceDone, nStart, mHolder,
                   lastUpdateError, repo, loop, opsLeft, prevRet, failStreak, ID, profileVars>>

(* RegisterDebug: fn returns, and the deferred c.m.Unlock() runs *)
RegisterReturn(c) ==
    /\ caller[c] = "rd_incb"
    /\ mHolder' = Free
    /\ caller' = [caller EXCEPT ![c] = "idle"]
    /\ UNCHANGED <<ctxDone, closeCalled, onceDone, nStart, debugListeners,
                   lastUpdateError, repo, loop, opsLeft, prevRet, failStreak, ID, profileVars>>

(* ---- the poll loop ---- *)

callerSide == <<closeCalled, onceDone, nStart, caller, opsLeft>>

(* A mutation of the delay: a backoff that doubles the wait after an error. *)
PollDelayWithBackoff == IF lastUpdateError = Nil THEN PollSeconds ELSE 2 * PollSeconds

(* The delay of the timer pollLoop creates: time.After(time.Second * 5) *)
PollDelay == PollSeconds

(* A mutation of the select that does not look at c.ctx.Done(). *)
LoopSelectIgnoringDone(g) ==
    /\ loop[g].pc = "top"
    /\ SetLoop(g, [loop[g] EXCEPT !.pc = "waiting", !.timer = PollDelay,
                                  !.waited = 0])
    /\ UNCHANGED <<ctxDone, mHolder, debugListeners, lastUpdateError, repo,
                   prevRet, failStreak, callerSide, ID, profileVars>>

(* pollLoop: the select is entered.  The timer is created here, so it is   *)
(* not ready yet: the loop returns if the context is done and parks        *)
(* otherwise.                                                              *)
LoopSelect(g) ==
    /\ loop[g].pc = "top"
    /\ IF ctxDone
       THEN SetLoop(g, [loop[g] EXCEPT !.pc = "returned"])
       ELSE SetLoop(g, [loop[g] EXCEPT !.pc = "waiting", !.timer = PollDelay,
                                       !.waited = 0])
    /\ UNCHANGED <<ctxDone, mHolder, debugListeners, lastUpdateError, repo,
                   prevRet, failStreak, callerSide, ID, profileVars>>

(* One second passes while the loop is parked in the select. *)
Tick(g) ==
    /\ loop[g].pc = "waiting"
    /\ loop[g].timer > 0
    /\ SetLoop(g, [loop[g] EXCEPT !.timer = @ - 1, !.waited = @ + 1])
    /\ UNCHANGED <<ctxDone, mHolder, debugListeners, lastUpdateError, repo,
                   prevRet, failStreak, callerSide, ID, profileVars>>

(* pollLoop: case <-c.ctx.Done(): return *)
WakeDone(g) ==
    /\ loop[g].pc = "waiting"
    /\ ctxDone
    /\ SetLoop(g, [loop[g] EXCEPT !.pc = "returned", !.timer = 0, !.waited = 0])
    /\ UNCHANGED <<ctxDone, mHolder, debugListeners, lastUpdateError, repo,
                   prevRet, failStreak, callerSide, ID, profileVars>>

(* pollLoop: case <-time.After(...): c.update() is called *)
TimerFire(g) ==
    /\ loop[g].pc = "waiting"
    /\ loop[g].timer = 0
    /\ SetLoop(g, [loop[g] EXCEPT !.pc = "build", !.repoAtStart = repo])
    /\ UNCHANGED <<ctxDone, mHolder, debugListeners, lastUpdateError, repo,
                   prevRet, failStreak, callerSide, ID, profileVars>>

(* hex.EncodeToString: two hexadecimal digits per byte *)
HexDigits ==
    <<"0", "1", "2", "3", "4", "5", "6", "7", "8", "9", "a", "b", "c", "d", "e", "f">>

RECURSIVE HexEncodeToString(_)
HexEncodeToString(bytes) ==
    IF bytes = <<>> THEN <<>>
    ELSE <<HexDigits[(Head(bytes) \div 16) + 1], HexDigits[(Head(bytes) % 16) + 1]>>
         \o HexEncodeToString(Tail(bytes))

(* The orders in which Go may range over a map with the keys given. *)
RangeOrders(keys) ==
    LET n == Cardinality(keys)
    IN {f \in [1..n -> keys] : \A i, j \in 1..n : i # j => f[i] # f[j]}

(* One order of iteration for the Hashes map of every cached file. *)
HashOrders ==
    LET files == CurrentState.CachedFiles
    IN {ord \in [1..Len(files) -> UNION {RangeOrders(DOMAIN files[i].Hashes) :
                                           i \in 1..Len(files)}] :
           \A i \in 1..Len(files) : ord[i] \in RangeOrders(DOMAIN files[i].Hashes)}

(* A mutation of newUpdateRequest that sends only the first hash of a file. *)
newUpdateRequestFirstHash(ord) ==
    LET state == CurrentState
        hasError == lastUpdateError # Nil
        errMsg == IF hasError THEN ErrorMessage(lastUpdateError) ELSE ""
    IN [HasError |-> hasError, Error |-> errMsg,
        RootVersion |-> state.RootsVersion,
        TargetsVersion |-> state.TargetsVersion,
        ConfigStates |->
            [i \in 1..Len(state.Configs) |->
                [Id |-> state.Configs[i].ID, Version |-> state.Configs[i].Version,
                 Product |-> state.Configs[i].Product]],
        BackendClientState |-> state.OpaqueBackendState,
        Id |-> ID,
        CachedTargetFiles |->
            [i \in 1..Len(state.CachedFiles) |->
                [Path |-> state.CachedFiles[i].Path,
                 Length |-> state.CachedFiles[i].Length,
                 Hashes |-> [j \in 1..1 |->
                     [Algorithm |-> ord[i][j],
                      Hash |-> HexEncodeToString(
                                   state.CachedFiles[i].Hashes[ord[i][j]])]]]],
        sent |-> TRUE]

(* newUpdateRequest: the request built from c.lastUpdateError and the      *)
(* repository's current state; ord is the order in which the range over    *)
(* each file's Hashes map runs.                                            *)
newUpdateRequest(ord) ==
    LET state == CurrentState
        hasError == lastUpdateError # Nil
        errMsg == IF hasError THEN ErrorMessage(lastUpdateError) ELSE ""
    IN [HasError |-> hasError, Error |-> errMsg,
        RootVersion |-> state.RootsVersion,
        TargetsVersion |-> state.TargetsVersion,
        ConfigStates |->
            [i \in 1..Len(state.Configs) |->
                [Id |-> state.Configs[i].ID, Version |-> state.Configs[i].Version,
                 Product |-> state.Configs[i].Product]],
        BackendClientState |-> state.OpaqueBackendState,
        Id |-> ID,
        CachedTargetFiles |->
            [i \in 1..Len(state.CachedFiles) |->
                [Path |-> state.CachedFiles[i].Path,
                 Length |-> state.CachedFiles[i].Length,
                 Hashes |-> [j \in 1..Len(ord[i]) |->
                     [Algorithm |-> ord[i][j],
                      Hash |-> HexEncodeToString(
                                   state.CachedFiles[i].Hashes[ord[i][j]])]]]],
        sent |-> TRUE]

(* update: req, err := c.newUpdateRequest(); the repository's CurrentState *)
(* may fail, and then update returns the error.  req is a local of update  *)
(* that nothing reads once ClientGetConfigs has returned.                  *)
UpdateBuild(g) ==
    /\ loop[g].pc = "build"
    /\ \/ SetLoop(g, [loop[g] EXCEPT !.pc = "assign", !.ret = ErrState,
                                     !.waited = 0])
       \/ \E ord \in HashOrders :
              SetLoop(g, [loop[g] EXCEPT !.pc = "fetch", !.waited = 0,
                                         !.req = newUpdateRequest(ord)])
    /\ UNCHANGED <<ctxDone, mHolder, debugListeners, lastUpdateError, repo,
                   prevRet, failStreak, callerSide, ID, profileVars>>

(* A mutation of update that applies a response without TargetFiles. *)
UpdateReceiveNoNilCheck(g, r) ==
    /\ loop[g].pc = "fetch"
    /\ IF r.err # Nil
       THEN SetLoop(g, [loop[g] EXCEPT !.req = NoReq, !.pc = "assign", !.ret = r.err])
       ELSE SetLoop(g, [loop[g] EXCEPT !.req = NoReq, !.pc = "apply", !.fetched = TRUE,
                                       !.targetFiles = r.targetFiles])
    /\ UNCHANGED <<ctxDone, mHolder, debugListeners, lastUpdateError, repo,
                   prevRet, failStreak, callerSide, ID, profileVars>>

(* update: c.updater.ClientGetConfigs returns r; an error is returned, and *)
(* a response whose TargetFiles is nil ends the update with nil.           *)
UpdateReceive(g, r) ==
    /\ loop[g].pc = "fetch"
    /\ IF r.err # Nil
       THEN SetLoop(g, [loop[g] EXCEPT !.req = NoReq, !.pc = "assign", !.ret = r.err])
       ELSE IF r.targetFiles = "nil"
       THEN SetLoop(g, [loop[g] EXCEPT !.req = NoReq, !.pc = "assign", !.ret = Nil,
                                       !.fetched = TRUE,
                                       !.targetFiles = r.targetFiles])
       ELSE SetLoop(g, [loop[g] EXCEPT !.req = NoReq, !.pc = "apply", !.fetched = TRUE,
                                       !.targetFiles = r.targetFiles])
    /\ UNCHANGED <<ctxDone, mHolder, debugListeners, lastUpdateError, repo,
                   prevRet, failStreak, callerSide, ID, profileVars>>

(* update: changedProducts, err := c.applyUpdate(response), and the return *)
(* when it failed or changed nothing.                                      *)
UpdateApply(g, o) ==
    /\ loop[g].pc = "apply"
    /\ repo' = o.repo
    /\ IF o.err # Nil
       THEN SetLoop(g, [loop[g] EXCEPT !.pc = "assign", !.ret = o.err])
       ELSE IF Len(o.changed) = 0
       THEN SetLoop(g, [loop[g] EXCEPT !.pc = "assign", !.ret = Nil,
                                       !.applied = TRUE,
                                       !.debugApplied = o.repo.debug])
       ELSE SetLoop(g, [loop[g] EXCEPT !.pc = "lock", !.changed = o.changed,
                                       !.applied = TRUE,
                                       !.debugApplied = o.repo.debug])
    /\ UNCHANGED <<ctxDone, mHolder, debugListeners, lastUpdateError,
                   prevRet, failStreak, callerSide, ID, profileVars>>

(* update: c.m.Lock() *)
UpdateLock(g) ==
    /\ loop[g].pc = "lock"
    /\ mHolder = Free
    /\ mHolder' = LoopId(g)
    /\ SetLoop(g, [loop[g] EXCEPT !.pc = "check", !.atLock = debugListeners])
    /\ UNCHANGED <<ctxDone, debugListeners, lastUpdateError, repo,
                   prevRet, failStreak, callerSide, ID, profileVars>>

(* A mutation of containsProduct that is true of any non-empty list. *)
containsProductAny(products, product) == Len(products) > 0

(* containsProduct *)
RECURSIVE containsProduct(_, _)
containsProduct(products, product) ==
    IF products = <<>> THEN FALSE
    ELSE IF product = Head(products) THEN TRUE
    ELSE containsProduct(Tail(products), product)

(* A mutation of the notification that starts at the second listener. *)
UpdateCheckSkippingFirst(g) ==
    /\ loop[g].pc = "check"
    /\ IF containsProduct(loop[g].changed, ProductDebug)
       THEN SetLoop(g, [loop[g] EXCEPT !.pc = "range", !.rng = debugListeners,
                                       !.i = 2])
       ELSE SetLoop(g, [loop[g] EXCEPT !.pc = "unlock"])
    /\ UNCHANGED <<ctxDone, mHolder, debugListeners, lastUpdateError, repo,
                   prevRet, failStreak, callerSide, ID, profileVars>>

(* update: if containsProduct(changedProducts, state.ProductDebug), the    *)
(* range over c.debugListeners starts (the slice is evaluated once).       *)
UpdateCheck(g) ==
    /\ loop[g].pc = "check"
    /\ IF containsProduct(loop[g].changed, ProductDebug)
       THEN SetLoop(g, [loop[g] EXCEPT !.pc = "range", !.rng = debugListeners,
                                       !.i = 1])
       ELSE SetLoop(g, [loop[g] EXCEPT !.pc = "unlock"])
    /\ UNCHANGED <<ctxDone, mHolder, debugListeners, lastUpdateError, repo,
                   prevRet, failStreak, callerSide, ID, profileVars>>

(* update: listener(c.state.DebugConfigs()) is entered for the next        *)
(* listener of the range, or the range is over.                            *)
UpdateRange(g) ==
    /\ loop[g].pc = "range"
    /\ IF loop[g].i <= Len(loop[g].rng)
       THEN SetLoop(g, [loop[g] EXCEPT
                !.pc = "incb",
                !.notified = Append(@, <<loop[g].rng[loop[g].i], DebugConfigs>>)])
       ELSE SetLoop(g, [loop[g] EXCEPT !.pc = "unlock"])
    /\ UNCHANGED <<ctxDone, mHolder, debugListeners, lastUpdateError, repo,
                   prevRet, failStreak, callerSide, ID, profileVars>>

(* update: the listener returns *)
ListenerReturn(g) ==
    /\ loop[g].pc = "incb"
    /\ SetLoop(g, [loop[g] EXCEPT !.pc = "range", !.i = @ + 1])
    /\ UNCHANGED <<ctxDone, mHolder, debugListeners, lastUpdateError, repo,
                   prevRet, failStreak, callerSide, ID, profileVars>>

(* update: return nil, and the deferred c.m.Unlock() runs *)
UpdateUnlock(g) ==
    /\ loop[g].pc = "unlock"
    /\ mHolder' = Free
    /\ SetLoop(g, [loop[g] EXCEPT !.pc = "assign", !.ret = Nil])
    /\ UNCHANGED <<ctxDone, debugListeners, lastUpdateError, repo,
                   prevRet, failStreak, callerSide, ID, profileVars>>

(* The locals of update, dropped when it has returned. *)
AfterUpdate(r) ==
    [LoopInit EXCEPT !.pc = "top", !.afterClose = r.afterClose]

(* A mutation of pollLoop that keeps the last error until the next one. *)
PollAssignKeepingError(g) ==
    /\ loop[g].pc = "assign"
    /\ lastUpdateError' = IF loop[g].ret # Nil THEN loop[g].ret ELSE lastUpdateError
    /\ prevRet' = loop[g].ret
    /\ failStreak' = IF loop[g].ret = Nil THEN 0
                     ELSE IF failStreak < 2 THEN failStreak + 1
                     ELSE failStreak
    /\ SetLoop(g, AfterUpdate(loop[g]))
    /\ UNCHANGED <<ctxDone, mHolder, debugListeners, repo, callerSide, ID, profileVars>>

(* pollLoop: c.lastUpdateError = c.update(), and the loop goes round *)
PollAssign(g) ==
    /\ loop[g].pc = "assign"
    /\ lastUpdateError' = loop[g].ret
    /\ prevRet' = loop[g].ret
    /\ failStreak' = IF loop[g].ret = Nil THEN 0
                     ELSE IF failStreak < 2 THEN failStreak + 1
                     ELSE failStreak
    /\ SetLoop(g, AfterUpdate(loop[g]))
    /\ UNCHANGED <<ctxDone, mHolder, debugListeners, repo, callerSide, ID, profileVars>>

-----------------------------------------------------------------------------
(* The client's specification *)

CallerStep(c) ==
    Start(c) \/ RegisterLock(c) \/ RegisterAppend(c) \/ RegisterReturn(c)

LoopStep(g) ==
    \/ LoopSelect(g) \/ Tick(g) \/ WakeDone(g) \/ TimerFire(g)
    \/ UpdateBuild(g)
    \/ \E r \in Responses : UpdateReceive(g, r)
    \/ \E o \in RepoUpdateOutcomes : UpdateApply(g, o)
    \/ UpdateLock(g) \/ UpdateCheck(g) \/ UpdateRange(g)
    \/ ListenerReturn(g) \/ UpdateUnlock(g) \/ PollAssign(g)

NextClient ==
    \/ \E c \in Callers : CallStart(c)
    \/ \E c \in Callers : Start(c)
    \/ \E c \in Callers : Close(c)
    \/ \E c \in Callers : CallRegisterDebug(c)
    \/ \E c \in Callers : RegisterLock(c)
    \/ \E c \in Callers : RegisterAppend(c)
    \/ \E c \in Callers : RegisterReturn(c)
    \/ \E g \in Loops : LoopSelect(g)
    \/ \E g \in Loops : Tick(g)
    \/ \E g \in Loops : WakeDone(g)
    \/ \E g \in Loops : TimerFire(g)
    \/ \E g \in Loops : UpdateBuild(g)
    \/ \E g \in Loops : \E r \in Responses : UpdateReceive(g, r)
    \/ \E g \in Loops : \E o \in RepoUpdateOutcomes : UpdateApply(g, o)
    \/ \E g \in Loops : UpdateLock(g)
    \/ \E g \in Loops : UpdateCheck(g)
    \/ \E g \in Loops : UpdateRange(g)
    \/ \E g \in Loops : ListenerReturn(g)
    \/ \E g \in Loops : UpdateUnlock(g)
    \/ \E g \in Loops : PollAssign(g)

Spec == Init /\ [][NextClient]_vars

(* The Go scheduler runs every goroutine that can run, time passes, and    *)
(* ClientGetConfigs and the listeners return.                              *)
InitFair == InitClientWith(MaxFairOps, 1) /\ InitProfilesIdle

SpecFair ==
    /\ InitFair /\ [][NextClient]_vars
    /\ WF_vars(\E g \in Loops : LoopStep(g))
    /\ WF_vars(\E c \in Callers : CallerStep(c))

(* The client over the identifiers newClient may have drawn. *)
InitID == InitClientWith(MaxFairOps, NumIDSamples) /\ InitProfilesIdle

SpecID == InitID /\ [][NextClient]_vars

-----------------------------------------------------------------------------
(* Properties of the client *)

UpdatePCs == {"build", "fetch", "apply", "lock", "check", "range", "incb",
              "unlock", "assign"}
LockedPCs == {"check", "range", "incb", "unlock"}

(* C1: a listener is invoked by update only if the response was fetched    *)
(* and applied without error and the list of changed products is not empty *)
(* and contains DEBUG; in every other case update invokes no listener.     *)
C1_NotifyOnlyWhenDebugChanged ==
    \A g \in Loops :
        loop[g].notified # <<>> =>
            /\ loop[g].fetched
            /\ loop[g].applied
            /\ Len(loop[g].changed) > 0
            /\ \E i \in 1..Len(loop[g].changed) : loop[g].changed[i] = ProductDebug

C1_Witness ==
    \E g \in Loops : loop[g].notified # <<>> /\ Len(loop[g].changed) = 2

(* C2: when the applied update reports DEBUG, the notification pass has    *)
(* invoked every listener registered when the pass started, once each, in  *)
(* registration order, each with the debug configs as the update left them.*)
C2_FanOut ==
    \A g \in Loops :
        (loop[g].pc = "unlock" /\ containsElem(loop[g].changed, ProductDebug)) =>
            loop[g].notified =
                [i \in 1..Len(loop[g].atLock) |->
                    <<loop[g].atLock[i], loop[g].debugApplied>>]

C2_Witness ==
    \E g \in Loops :
        /\ loop[g].pc = "unlock"
        /\ Len(loop[g].notified) = 2
        /\ loop[g].notified[1][1] # loop[g].notified[2][1]
        /\ loop[g].debugApplied > 0

(* C3: whatever the number of Start calls, at most one poll loop is        *)
(* launched, so at most one update is in progress at any time.             *)
C3_SinglePollLoop ==
    /\ Cardinality({g \in Loops : loop[g].pc # "idle"}) <= 1
    /\ Cardinality({g \in Loops : loop[g].pc \in UpdatePCs}) <= 1

C3_Witness ==
    /\ nStart >= 2
    /\ \A c \in Callers : caller[c] = "idle"
    /\ \E g \in Loops : loop[g].pc = "fetch"

(* C4: a poll loop launched by a Start that runs after Close was called    *)
(* never performs an update.                                               *)
C4_NoUpdateAfterClose ==
    \A g \in Loops :
        loop[g].afterClose => loop[g].pc \in {"top", "returned"}

C4_Witness ==
    \E g \in Loops : loop[g].afterClose /\ loop[g].pc = "returned"

(* C5: once Close has been called, a poll loop that was launched           *)
(* eventually returns, and it stays returned for ever.                     *)
C5_CloseTerminatesLoop ==
    \A g \in Loops :
        (closeCalled /\ loop[g].pc # "idle") ~> [](loop[g].pc = "returned")

C5_Witness ==
    \E g \in Loops :
        closeCalled /\ ~loop[g].afterClose /\ loop[g].pc = "returned"

(* C6: debugListeners is read and written only by the holder of c.m, a     *)
(* registration never interleaves with a notification pass, and no two     *)
(* listener callbacks run at the same time.                                *)
C6_ListenersMutexGuarded ==
    /\ \A g \in Loops : loop[g].pc \in LockedPCs => mHolder = LoopId(g)
    /\ \A c \in Callers :
           caller[c] \in {"rd_append", "rd_incb"} => mHolder = CallerId(c)
    /\ Cardinality({g \in Loops : loop[g].pc = "incb"}) +
       Cardinality({c \in Callers : caller[c] = "rd_incb"}) <= 1

C6_Witness ==
    /\ \E g \in Loops : loop[g].pc = "incb"
    /\ \E c \in Callers : caller[c] = "rd_lock"

(* C7: the request of an attempt reports an error, with its message,       *)
(* exactly when the attempt before it returned an error; lastUpdateError   *)
(* is what the last attempt returned; the loop returns only when the       *)
(* context is done.                                                        *)
C7_ErrorPassThrough ==
    /\ \A g \in Loops :
           loop[g].pc = "fetch" =>
               /\ loop[g].req.HasError = (prevRet \notin {"none", Nil})
               /\ loop[g].req.Error =
                      IF prevRet \in {"none", Nil} THEN "" ELSE ErrorMessage(prevRet)
    /\ lastUpdateError = IF prevRet = "none" THEN Nil ELSE prevRet
    /\ \A g \in Loops : loop[g].pc = "returned" => ctxDone

C7_Witness ==
    \E g \in Loops :
        /\ loop[g].pc = "fetch"
        /\ loop[g].req.HasError
        /\ loop[g].req.Error = "update rejected"

(* C8: every update attempt starts after the same wait of PollSeconds,     *)
(* whatever the number of failed attempts before it.                       *)
C8_FixedDelay ==
    \A g \in Loops : loop[g].pc = "build" => loop[g].waited = PollSeconds

C8_Witness ==
    \E g \in Loops : loop[g].pc = "build" /\ failStreak >= 2

(* C9: an update whose response has no TargetFiles leaves the repository   *)
(* and the listener list alone, invokes no listener and returns nil.       *)
C9_NoNewUpdate ==
    /\ [](\A g \in Loops :
             (loop[g].pc = "assign" /\ loop[g].targetFiles = "nil") =>
                 /\ repo = loop[g].repoAtStart
                 /\ loop[g].notified = <<>>
                 /\ loop[g].ret = Nil)
    /\ [][\A g \in Loops :
             (loop[g].pc \in {"build", "fetch"} /\ loop'[g].pc # loop[g].pc) =>
                 /\ debugListeners' = debugListeners
                 /\ repo' = repo]_vars

C9_Witness ==
    \E g \in Loops :
        /\ loop[g].pc = "assign"
        /\ loop[g].targetFiles = "nil"
        /\ repo.targets > 0
        /\ debugListeners # <<>>
        /\ prevRet \notin {"none", Nil}

-----------------------------------------------------------------------------
(* Agent profiles: ProfilesToApply (package agentprofile)                  *)

MaxProfiles == 2
MaxNodes == 2

defaultProfileName == "default"

(* v1.NodeSelectorOperator *)
OpIn == "In"
OpNotIn == "NotIn"
OpExists == "Exists"
OpDoesNotExist == "DoesNotExist"
OpGt == "Gt"
OpLt == "Lt"

Req(k, op, vals) == [Key |-> k, Operator |-> op, Values |-> vals]

(* Spec.ProfileAffinity: nil, or the list ProfileNodeAffinity *)
NilAffinity == [isNil |-> TRUE, ProfileNodeAffinity |-> <<>>]
Affinity(reqs) == [isNil |-> FALSE, ProfileNodeAffinity |-> reqs]

(* The inputs: label values are the numerals 1, 2; a node has the label    *)
(* "k" or not; the last affinity is not a valid requirement (the operator  *)
(* In needs a value).                                                      *)
LabelValues == {1, 2}
Affinities ==
    { NilAffinity,
      Affinity(<<Req("k", OpIn, {1})>>),
      Affinity(<<Req("k", OpNotIn, {1})>>),
      Affinity(<<Req("k", OpExists, {})>>),
      Affinity(<<Req("k", OpGt, {1})>>),
      Affinity(<<Req("k", OpIn, {})>>) }

ProfileNames == {"a", "b"}
Timestamps == {1, 2}

Profiles ==
    [Name : ProfileNames, CreationTimestamp : Timestamps, ProfileAffinity : Affinities]

NoLabels == [x \in {} |-> 0]
LabelSets == {NoLabels} \cup {[x \in {"k"} |-> v] : v \in LabelValues}

SeqsUpTo(S, n) == UNION {[1..m -> S] : m \in 0..n}

(* Nodes of a cluster have distinct names: the i-th node is named i. *)
NodeLists ==
    { [i \in 1..Len(ls) |-> [Name |-> i, Labels |-> ls[i]]] :
        ls \in SeqsUpTo(LabelSets, MaxNodes) }

(* labels.NewRequirement: the requirement is well-formed *)
ValidRequirement(r) ==
    CASE r.Operator \in {OpIn, OpNotIn} -> r.Values # {}
      [] r.Operator \in {OpExists, OpDoesNotExist} -> r.Values = {}
      [] r.Operator \in {OpGt, OpLt} -> Cardinality(r.Values) = 1
      [] OTHER -> FALSE

(* labels.Requirement.Matches *)
RequirementMatches(r, labels) ==
    LET has == r.Key \in DOMAIN labels
    IN CASE r.Operator = OpIn -> has /\ labels[r.Key] \in r.Values
         [] r.Operator = OpNotIn -> ~has \/ labels[r.Key] \notin r.Values
         [] r.Operator = OpExists -> has
         [] r.Operator = OpDoesNotExist -> ~has
         [] r.Operator = OpGt -> has /\ \A v \in r.Values : labels[r.Key] > v
         [] r.Operator = OpLt -> has /\ \A v \in r.Values : labels[r.Key] < v
         [] OTHER -> FALSE

(* profileMatchesNode: "err" when a requirement reached is not valid *)
RECURSIVE matchesFrom(_, _, _)
matchesFrom(reqs, i, node) ==
    IF i > Len(reqs) THEN "true"
    ELSE IF ~ValidRequirement(reqs[i]) THEN "err"
    ELSE IF ~RequirementMatches(reqs[i], node.Labels) THEN "false"
    ELSE matchesFrom(reqs, i + 1, node)

profileMatchesNode(profile, node) ==
    IF profile.ProfileAffinity.isNil THEN "true"
    ELSE matchesFrom(profile.ProfileAffinity.ProfileNodeAffinity, 1, node)

(* sortProfiles: any order sort.Slice can leave, which is not stable: no   *)
(* profile comes before one that is less than it.                          *)
NameRank(n) == CASE n = "a" -> 1 [] n = "b" -> 2 [] OTHER -> 3

Less(p, q) ==
    IF p.CreationTimestamp # q.CreationTimestamp
    THEN p.CreationTimestamp < q.CreationTimestamp
    ELSE NameRank(p.Name) < NameRank(q.Name)

(* A mutation of sortProfiles that returns the profiles in the order given. *)
sortProfilesUnsorted(ps) == {ps}

sortProfiles(ps) ==
    LET n == Len(ps)
        perms == {f \in [1..n -> 1..n] : \A i, j \in 1..n : i # j => f[i] # f[j]}
    IN { [i \in 1..n |-> ps[f[i]]] : f \in
           {g \in perms : \A i, j \in 1..n : i < j => ~Less(ps[g[j]], ps[g[i]])} }


(* A mutation of the node loop that never reports a conflict. *)
RECURSIVE scanNodesNoConflict(_, _, _, _, _)
scanNodesNoConflict(profile, ns, i, applied, matched) ==
    IF i > Len(ns) THEN [err |-> FALSE, conflicts |-> FALSE, matched |-> matched]
    ELSE LET m == profileMatchesNode(profile, ns[i])
         IN IF m = "err"
            THEN [err |-> TRUE, conflicts |-> FALSE, matched |-> matched]
            ELSE IF m = "true"
            THEN scanNodesNoConflict(profile, ns, i + 1, applied,
                                     matched \cup {ns[i].Name})
            ELSE scanNodesNoConflict(profile, ns, i + 1, applied, matched)

(* ProfilesToApply: the loop over the nodes for one profile.  applied is   *)
(* nodesWithProfilesApplied (the names set to true), matched is            *)
(* nodesThatMatchProfile.                                                  *)
RECURSIVE scanNodes(_, _, _, _, _)
scanNodes(profile, ns, i, applied, matched) ==
    IF i > Len(ns) THEN [err |-> FALSE, conflicts |-> FALSE, matched |-> matched]
    ELSE LET m == profileMatchesNode(profile, ns[i])
         IN IF m = "err"
            THEN [err |-> TRUE, conflicts |-> FALSE, matched |-> matched]
            ELSE IF m = "true"
            THEN IF ns[i].Name \in applied
                 THEN [err |-> FALSE, conflicts |-> TRUE, matched |-> matched]
                 ELSE scanNodes(profile, ns, i + 1, applied,
                                matched \cup {ns[i].Name})
            ELSE scanNodes(profile, ns, i + 1, applied, matched)

(* oppositeOperator *)
oppositeOperator(op) ==
    CASE op = OpIn -> OpNotIn
      [] op = OpNotIn -> OpIn
      [] op = OpExists -> OpDoesNotExist
      [] op = OpDoesNotExist -> OpExists
      [] op = OpGt -> OpLt
      [] op = OpLt -> OpGt
      [] OTHER -> ""

(* defaultProfile: the requirements of the profiles given, each with the   *)
(* opposite operator; no affinity when there is none.                      *)
RECURSIVE oppositeRequirements(_, _)
oppositeRequirements(ps, i) ==
    IF i > Len(ps) THEN <<>>
    ELSE LET a == ps[i].ProfileAffinity
             rs == IF a.isNil THEN <<>>
                   ELSE [j \in 1..Len(a.ProfileNodeAffinity) |->
                           Req(a.ProfileNodeAffinity[j].Key,
                               oppositeOperator(a.ProfileNodeAffinity[j].Operator),
                               a.ProfileNodeAffinity[j].Values)]
         IN rs \o oppositeRequirements(ps, i + 1)

(* A mutation of defaultProfile that sets an affinity even without any     *)
(* requirement.                                                            *)
defaultProfileAlwaysAffinity(ps) ==
    [Name |-> defaultProfileName, CreationTimestamp |-> 0,
     ProfileAffinity |-> Affinity(oppositeRequirements(ps, 1))]

defaultProfile(ps) ==
    LET nodeSelectorRequirements == oppositeRequirements(ps, 1)
    IN [Name |-> defaultProfileName, CreationTimestamp |-> 0,
        ProfileAffinity |-> IF Len(nodeSelectorRequirements) > 0
                            THEN Affinity(nodeSelectorRequirements)
                            ELSE NilAffinity]

(* ProfilesToApply: the loop over the sorted profiles *)
RECURSIVE applyFrom(_, _, _, _, _)
applyFrom(sorted, i, ns, applied, acc) ==
    IF i > Len(sorted)
    THEN [err |-> FALSE, list |-> Append(acc, defaultProfile(acc))]
    ELSE LET r == scanNodes(sorted[i], ns, 1, applied, {})
         IN IF r.err THEN [err |-> TRUE, list |-> <<>>]
            ELSE IF r.conflicts THEN applyFrom(sorted, i + 1, ns, applied, acc)
            ELSE applyFrom(sorted, i + 1, ns, applied \cup r.matched,
                           Append(acc, sorted[i]))

-----------------------------------------------------------------------------
(* The specification of ProfilesToApply: any profiles and nodes within the *)
(* bounds, then one call.                                                  *)

NoResult == [err |-> FALSE, list |-> <<>>]

InitProfiles ==
    /\ InitClient
    /\ pfPc = "input"
    /\ profiles \in SeqsUpTo(Profiles, MaxProfiles)
    /\ nodes \in NodeLists
    /\ sortedProfiles = <<>>
    /\ res = NoResult

ProfilesToApply ==
    /\ pfPc = "input"
    /\ \E sp \in sortProfiles(profiles) :
           /\ sortedProfiles' = sp
           /\ res' = applyFrom(sp, 1, nodes, {}, <<>>)
    /\ pfPc' = "done"
    /\ UNCHANGED <<profiles, nodes, clientVars>>

NextProfiles == ProfilesToApply

SpecProfiles == InitProfiles /\ [][NextProfiles]_vars

(* Whether every requirement of the profiles given is valid. *)
AllValid ==
    \A i \in 1..Len(profiles) :
        LET a == profiles[i].ProfileAffinity
        IN \A j \in 1..Len(a.ProfileNodeAffinity) :
               ValidRequirement(a.ProfileNodeAffinity[j])

(* Matching as the Kubernetes scheduler's node affinity does it. *)
Matches(profile, node) ==
    \/ profile.ProfileAffinity.isNil
    \/ \A j \in 1..Len(profile.ProfileAffinity.ProfileNodeAffinity) :
           RequirementMatches(profile.ProfileAffinity.ProfileNodeAffinity[j],
                              node.Labels)

(* C10: given valid requirements, ProfilesToApply returns no error, the    *)
(* last element of its result is named "default", every other element is  *)
(* one of the profiles given, and no node is matched by two of them.       *)
C10_SubsetWithoutConflictPlusDefault ==
    (pfPc = "done" /\ AllValid) =>
        /\ ~res.err
        /\ Len(res.list) >= 1
        /\ res.list[Len(res.list)].Name = defaultProfileName
        /\ \A i \in 1..(Len(res.list) - 1) :
               \E k \in 1..Len(profiles) : res.list[i] = profiles[k]
        /\ \A n \in 1..Len(nodes) :
               \A i, j \in 1..(Len(res.list) - 1) :
                   (i # j /\ Matches(res.list[i], nodes[n])) =>
                       ~Matches(res.list[j], nodes[n])

C10_Witness ==
    /\ pfPc = "done"
    /\ AllValid
    /\ Len(profiles) = 2
    /\ Len(res.list) = 2
    /\ \E n \in 1..Len(nodes) :
           Matches(profiles[1], nodes[n]) /\ Matches(profiles[2], nodes[n])
    /\ ~profiles[1].ProfileAffinity.isNil
    /\ ~profiles[2].ProfileAffinity.isNil

-----------------------------------------------------------------------------
(* Precedence among conflicting profiles *)

(* The positions of sp kept when the profiles are taken in the order of    *)
(* sp and one is left out exactly when it shares a node with a kept one    *)
(* before it.                                                              *)
RECURSIVE KeptUpTo(_, _)
KeptUpTo(sp, i) ==
    IF i = 0 THEN {}
    ELSE LET prev == KeptUpTo(sp, i - 1)
         IN IF \E j \in prev : \E n \in 1..Len(nodes) :
                   Matches(sp[i], nodes[n]) /\ Matches(sp[j], nodes[n])
            THEN prev
            ELSE prev \cup {i}

RECURSIVE PickFrom(_, _, _)
PickFrom(sp, i, K) ==
    IF i > Len(sp) THEN <<>>
    ELSE (IF i \in K THEN <<sp[i]>> ELSE <<>>) \o PickFrom(sp, i + 1, K)

Occurrences(sq, x) == Cardinality({i \in 1..Len(sq) : sq[i] = x})

-----------------------------------------------------------------------------
(* Profiles without conflict *)

NoSharedNode ==
    \A n \in 1..Len(nodes) : \A i, j \in 1..Len(profiles) :
        (i # j /\ Matches(profiles[i], nodes[n])) => ~Matches(profiles[j], nodes[n])

(* C12: when no node is matched by two of the profiles given, the result   *)
(* is all of them plus the default profile; with no profiles it is the     *)
(* default profile alone, which then has no node affinity.                 *)
C12_AllProfilesPlusDefault ==
    (pfPc = "done" /\ AllValid /\ NoSharedNode) =>
        /\ ~res.err
        /\ Len(res.list) = Len(profiles) + 1
        /\ res.list[Len(res.list)].Name = defaultProfileName
        /\ \A i \in 1..Len(profiles) :
               Occurrences(SubSeq(res.list, 1, Len(profiles)), profiles[i]) =
                   Occurrences(profiles, profiles[i])
        /\ Len(profiles) = 0 => res.list[1].ProfileAffinity.isNil

C12_Witness ==
    /\ pfPc = "done"
    /\ AllValid
    /\ NoSharedNode
    /\ Len(profiles) = 2
    /\ \A i \in 1..2 : \E n \in 1..Len(nodes) : Matches(profiles[i], nodes[n])
    /\ Len(res.list) = 3

-----------------------------------------------------------------------------
(* The default profile *)

(* C13: for every node, the default profile returned matches the node if   *)
(* and only if no other profile returned matches it.                       *)
C13_DefaultCoversTheRest ==
    (pfPc = "done" /\ AllValid /\ ~res.err /\ Len(res.list) >= 1) =>
        \A n \in 1..Len(nodes) :
            Matches(res.list[Len(res.list)], nodes[n]) <=>
                ~\E i \in 1..(Len(res.list) - 1) : Matches(res.list[i], nodes[n])

-----------------------------------------------------------------------------
(* The update request *)

HexValue(ch) == CHOOSE k \in 0..15 : HexDigits[k + 1] = ch

RECURSIVE HexDecode(_)
HexDecode(digits) ==
    IF Len(digits) < 2 THEN <<>>
    ELSE <<16 * HexValue(digits[1]) + HexValue(digits[2])>>
         \o HexDecode(SubSeq(digits, 3, Len(digits)))

RequestOfCurrentState(rq) ==
    LET st == CurrentState
    IN /\ rq.sent
       /\ rq.RootVersion = st.RootsVersion
       /\ rq.TargetsVersion = st.TargetsVersion
       /\ Len(rq.ConfigStates) = Len(st.Configs)
       /\ \A i \in 1..Len(st.Configs) :
              rq.ConfigStates[i] = [Id |-> st.Configs[i].ID,
                                    Version |-> st.Configs[i].Version,
                                    Product |-> st.Configs[i].Product]
       /\ Len(rq.CachedTargetFiles) = Len(st.CachedFiles)
       /\ \A i \in 1..Len(st.CachedFiles) :
              LET f == st.CachedFiles[i]
                  m == rq.CachedTargetFiles[i]
              IN /\ m.Path = f.Path
                 /\ m.Length = f.Length
                 /\ Len(m.Hashes) = Cardinality(DOMAIN f.Hashes)
                 /\ \A a \in DOMAIN f.Hashes :
                        \E j \in 1..Len(m.Hashes) :
                            /\ m.Hashes[j].Algorithm = a
                            /\ HexDecode(m.Hashes[j].Hash) = f.Hashes[a]
       /\ rq.BackendClientState = st.OpaqueBackendState

(* C14: a request about to be sent carries the repository's current root   *)
(* and targets versions, one config state (same id, version, product) per  *)
(* config, one cached file (same path and length, one hash per algorithm)  *)
(* per cached file, and the opaque backend state; an update that failed to *)
(* read the current state returns that error having sent no request.       *)
C14_RequestFromCurrentState ==
    \A g \in Loops :
        /\ loop[g].pc = "fetch" => RequestOfCurrentState(loop[g].req)
        /\ (loop[g].pc = "assign" /\ loop[g].ret = ErrState) =>
               (~loop[g].req.sent /\ ~loop[g].fetched)

C14_Witness ==
    \E g \in Loops :
        /\ loop[g].pc = "fetch"
        /\ repo.targets >= 2
        /\ Len(loop[g].req.CachedTargetFiles) = 2
        /\ Len(loop[g].req.CachedTargetFiles[2].Hashes) = 2
        /\ loop[g].req.CachedTargetFiles[2].Hashes[1].Algorithm = "sha512"
        /\ loop[g].req.RootVersion = 2

-----------------------------------------------------------------------------
(* The client's identifier *)

AlphabetRunes == {idAlphabet[k] : k \in 1..Len(idAlphabet)}

(* C15: the client's ID has exactly 21 characters, each one of the 64 of   *)
(* the alphabet, the index computed from any byte lying within the         *)
(* alphabet; every request built carries that ID; and no step changes it.  *)
C15_ClientIdentity ==
    /\ [](/\ Len(idAlphabet) = 64
          /\ Cardinality(AlphabetRunes) = 64
          /\ \A b \in 0..255 : AlphabetIndex(b) \in 0..(Len(idAlphabet) - 1)
          /\ Len(ID) = 21
          /\ \A i \in 1..Len(ID) : ID[i] \in AlphabetRunes
          /\ \A g \in Loops : loop[g].req.sent => loop[g].req.Id = ID)
    /\ [][ID' = ID]_vars

C15_Witness ==
    /\ ID = generateID(RandRead(2))
    /\ ID[1] = "z"
    /\ ID[2] = "m"
    /\ repo.targets >= 1
    /\ \E g \in Loops :
          /\ loop[g].pc = "fetch"
          /\ loop[g].req.TargetsVersion >= 1
          /\ loop[g].req.Id = ID

=============================================================================
